---- MODULE Spec2Model ----
(***************************************************************************)
(* Recipe Blog API (src/main.py, src/schemas.py) as a state machine.       *)
(*                                                                         *)
(* Text is a sequence of one-character strings, so that lower(), split(),  *)
(* join(), substring tests and regular-expression search are computed on   *)
(* characters as the Python code computes them.  An Optional value is the  *)
(* empty sequence (None) or a one-element sequence (a value).              *)
(***************************************************************************)
EXTENDS Naturals, Sequences, FiniteSets

VARIABLES
    db,            \* the store client imported from database: "None" or "client"
    frontend_url,  \* os.getenv("FRONTEND_URL", "")
    recipes,       \* collection "recipe", natural (insertion) order
    comments,      \* collection "comment"
    categories,    \* collection "category"
    inflight,      \* add_comment requests between find_one and create_document
    resp           \* the response of the request completed last

vars == <<db, frontend_url, recipes, comments, categories, inflight, resp>>

(***************************************************************************)
(* Bounds of the model.                                                    *)
(***************************************************************************)
MaxRecipes == 2
MaxComments == 2
MaxCategories == 1
MaxInFlight == 1
MaxTitleLen == 4
MaxIngredients == 3
\* Width of a store identifier in hexadecimal digits (24 in bson), scaled.
OidHexLen == 2

(***************************************************************************)
(* Text                                                                    *)
(***************************************************************************)
None == <<>>
Some(v) == <<v>>
Range(s) == {s[i] : i \in DOMAIN s}

UpperChars == <<"A","B","C","D","E","F","G","H","I","J","K","L","M",
                "N","O","P","Q","R","S","T","U","V","W","X","Y","Z">>
LowerChars == <<"a","b","c","d","e","f","g","h","i","j","k","l","m",
                "n","o","p","q","r","s","t","u","v","w","x","y","z">>
WhitespaceChars == {" ", "\t", "\n", "\r"}
HexChars == {"0","1","2","3","4","5","6","7","8","9",
             "a","b","c","d","e","f","A","B","C","D","E","F"}
DigitChars == <<"0","1","2","3","4","5","6","7","8","9">>

LowerChar(c) ==
    IF \E i \in DOMAIN UpperChars : UpperChars[i] = c
    THEN LowerChars[CHOOSE i \in DOMAIN UpperChars : UpperChars[i] = c]
    ELSE c

UpperChar(c) ==
    IF \E i \in DOMAIN LowerChars : LowerChars[i] = c
    THEN UpperChars[CHOOSE i \in DOMAIN LowerChars : LowerChars[i] = c]
    ELSE c

\* str.lower()
Lower(s) == [i \in DOMAIN s |-> LowerChar(s[i])]

\* str.upper()
Upper(s) == [i \in DOMAIN s |-> UpperChar(s[i])]

\* sub in s
Contains(s, sub) ==
    \E i \in 0..Len(s) : i + Len(sub) <= Len(s) /\ SubSeq(s, i + 1, i + Len(sub)) = sub

RECURSIVE SplitAcc(_, _, _)
SplitAcc(s, cur, acc) ==
    IF s = <<>>
    THEN IF cur = <<>> THEN acc ELSE Append(acc, cur)
    ELSE IF Head(s) \in WhitespaceChars
         THEN SplitAcc(Tail(s), <<>>, IF cur = <<>> THEN acc ELSE Append(acc, cur))
         ELSE SplitAcc(Tail(s), Append(cur, Head(s)), acc)

\* str.split() with no separator: the maximal runs of non-whitespace
Split(s) == SplitAcc(s, <<>>, <<>>)

RECURSIVE Join(_, _)
\* sep.join(parts)
Join(sep, parts) ==
    IF parts = <<>> THEN <<>>
    ELSE IF Len(parts) = 1 THEN parts[1]
    ELSE parts[1] \o sep \o Join(sep, Tail(parts))

\* s[:n]
Take(s, n) == SubSeq(s, 1, IF Len(s) < n THEN Len(s) ELSE n)

\* All character sequences over alphabet of length lo..hi
Strings(alphabet, lo, hi) == UNION {[1..n -> alphabet] : n \in lo..hi}

(***************************************************************************)
(* Responses                                                               *)
(***************************************************************************)
Response(op, req, status, detail, body, reads, writes) ==
    [op |-> op, req |-> req, status |-> status, detail |-> detail,
     body |-> body, reads |-> reads, writes |-> writes]

NoResponse == Response("none", <<>>, 0, "", <<>>, 0, 0)

\* raise HTTPException(status_code=500, detail="Database not configured")
NotConfigured(op, req) == Response(op, req, 500, "Database not configured", <<>>, 0, 0)

\* the framework's rejection of a request that fails the declared schema
Unprocessable(op, req) == Response(op, req, 422, "validation error", <<>>, 0, 0)

\* an exception no handler catches
InternalError(op, req, reads, writes) ==
    Response(op, req, 500, "Internal Server Error", <<>>, reads, writes)

(***************************************************************************)
(* Schemas (src/schemas.py) and query-parameter constraints                *)
(***************************************************************************)
TitleMinLen == 3
TitleMaxLen == 140
CookTimeMin == 0
CookTimeMax == 1000
NameMinLen == 2
NameMaxLen == 60
MessageMinLen == 1
MessageMaxLen == 1000
RecipeLimitMin == 1
RecipeLimitMax == 100
ListLimitMin == 1
ListLimitMax == 200
SitemapLimit == 500

\* Recipe: the constrained fields and the fields the handlers read.  The
\* remaining fields (summary, ingredients, steps, category, image_url,
\* author) are carried through model_dump() untouched and are left out.
ValidRecipe(recipe) ==
    /\ Len(recipe.title) >= TitleMinLen
    /\ Len(recipe.title) <= TitleMaxLen
    /\ \/ recipe.cook_time_minutes = None
       \/ /\ recipe.cook_time_minutes[1] >= CookTimeMin
          /\ recipe.cook_time_minutes[1] <= CookTimeMax

\* Comment: recipe_id is a required field of the body
ValidComment(comment) ==
    /\ comment.recipe_id # None
    /\ Len(comment.name) >= NameMinLen
    /\ Len(comment.name) <= NameMaxLen
    /\ Len(comment.message) >= MessageMinLen
    /\ Len(comment.message) <= MessageMaxLen

ValidCategory(category) ==
    /\ Len(category.name) >= NameMinLen
    /\ Len(category.name) <= NameMaxLen

\* limit: int = Query(20, ge=1, le=100)
ValidRecipeLimit(limit) == limit >= RecipeLimitMin /\ limit <= RecipeLimitMax

\* limit: int = Query(50, ge=1, le=200)
ValidListLimit(limit) == limit >= ListLimitMin /\ limit <= ListLimitMax

(***************************************************************************)
(* The document store                                                      *)
(***************************************************************************)
\* Whether ObjectId(text) succeeds: OidHexLen hexadecimal digits, either case
IsValidOid(text) ==
    /\ Len(text) = OidHexLen
    /\ \A i \in DOMAIN text : text[i] \in HexChars

\* ObjectId(text): the identifier value; its digits are kept in lower case
ObjectId(text) == [oid |-> Lower(text)]

\* str(ObjectId)
OidStr(id) == id.oid

\* The n-th identifier the store assigns in a collection: distinct across
\* collections (the leading digit) and within one (the trailing digit).
NewObjectId(prefix, n) ==
    [oid |-> <<prefix>> \o [i \in 1..(OidHexLen - 2) |-> "0"] \o <<DigitChars[n + 1]>>]

\* create_document(collection_name, data): one insert; the new collection
\* and str(inserted_id)
CreateDocument(coll, prefix, data) ==
    LET id == NewObjectId(prefix, Len(coll) + 1)
        doc == [k \in (DOMAIN data) \cup {"_id"} |->
                    IF k = "_id" THEN id ELSE data[k]]
    IN [docs |-> Append(coll, doc), id |-> OidStr(id)]

\* A filter document is a sequence of conditions [field, op, arg], all of
\* which a matching document satisfies; {} is the empty sequence.
Condition(field, op, arg) == [field |-> field, op |-> op, arg |-> arg]

\* "$regex" with "$options": "i": arg is a pattern, searched anywhere in
\* the field without regard to case; "." stands for any character but a
\* line break, every other character of the model's alphabet for itself.
RegexSearchI(pattern, text) ==
    \E i \in 0..Len(text) :
        /\ i + Len(pattern) <= Len(text)
        /\ \A j \in DOMAIN pattern :
              \/ pattern[j] = "." /\ text[i + j] # "\n"
              \/ pattern[j] # "." /\ LowerChar(pattern[j]) = LowerChar(text[i + j])

Satisfies(doc, cond) ==
    CASE cond.op = "$regex" -> RegexSearchI(cond.arg, doc[cond.field])
      [] cond.op = "$in" -> Range(cond.arg) \cap Range(doc[cond.field]) # {}
      [] cond.op = "$eq" -> doc[cond.field] = cond.arg

Matches(doc, filter_dict) ==
    \A k \in DOMAIN filter_dict : Satisfies(doc, filter_dict[k])

\* get_documents(collection_name, filter_dict, limit): one bounded find
GetDocuments(coll, filter_dict, limit) ==
    Take(SelectSeq(coll, LAMBDA doc : Matches(doc, filter_dict)), limit)

\* collection.find_one(filter): the first match in natural order, or None
FindOne(coll, filter_dict) ==
    LET found == SelectSeq(coll, LAMBDA doc : Matches(doc, filter_dict))
    IN IF found = <<>> THEN None ELSE Some(found[1])

\* serialize_doc: "_id" leaves, "id" holds its string form.  No other field
\* of the three collections holds an ObjectId.
serialize_doc(doc) ==
    IF "_id" \in DOMAIN doc
    THEN [k \in ((DOMAIN doc) \ {"_id"}) \cup {"id"} |->
              IF k = "id" THEN OidStr(doc["_id"]) ELSE doc[k]]
    ELSE doc

SerializeAll(docs) == [i \in DOMAIN docs |-> serialize_doc(docs[i])]

(***************************************************************************)
(* Recipes                                                                 *)
(***************************************************************************)
SlugNoLower(recipe) ==
    IF recipe.slug # None /\ recipe.slug[1] # <<>>
    THEN recipe.slug[1]
    ELSE Join(<<"-">>, Split(recipe.title))

\* slug = recipe.slug or "-".join(recipe.title.lower().split())
SlugOf(recipe) ==
    IF recipe.slug # None /\ recipe.slug[1] # <<>>
    THEN recipe.slug[1]
    ELSE Join(<<"-">>, Split(Lower(recipe.title)))

\* data = recipe.model_dump(); data["slug"] = slug
RecipeData(recipe) == [recipe EXCEPT !.slug = SlugOf(recipe)]

\* POST /api/recipes
create_recipe(recipe) ==
    /\ IF ~ValidRecipe(recipe)
       THEN /\ resp' = Unprocessable("create_recipe", recipe)
            /\ UNCHANGED recipes
       ELSE IF db = "None"
       THEN /\ resp' = NotConfigured("create_recipe", recipe)
            /\ UNCHANGED recipes
       ELSE /\ Len(recipes) < MaxRecipes
            /\ LET made == CreateDocument(recipes, "a", RecipeData(recipe))
               IN /\ recipes' = made.docs
                  /\ resp' = Response("create_recipe", recipe, 200, "",
                                      [id |-> made.id], 0, 1)
    /\ UNCHANGED <<db, frontend_url, comments, categories, inflight>>

\* filter_dict of list_recipes: a condition for each parameter that is truthy
RecipeFilter(q, tag) ==
    (IF q # None /\ q[1] # <<>>
     THEN <<Condition("title", "$regex", q[1])>> ELSE <<>>)
    \o (IF tag # None /\ tag[1] # <<>>
        THEN <<Condition("tags", "$in", <<tag[1]>>)>> ELSE <<>>)

\* GET /api/recipes
list_recipes(q, tag, limit) ==
    LET req == [q |-> q, tag |-> tag, limit |-> limit]
    IN /\ IF ~ValidRecipeLimit(limit)
          THEN resp' = Unprocessable("list_recipes", req)
          ELSE IF db = "None"
          THEN resp' = NotConfigured("list_recipes", req)
          ELSE LET docs == GetDocuments(recipes, RecipeFilter(q, tag), limit)
               IN resp' = Response("list_recipes", req, 200, "",
                                   SerializeAll(docs), 1, 0)
       /\ UNCHANGED <<db, frontend_url, recipes, comments, categories, inflight>>

FindBySlugLast(slug) ==
    LET found == SelectSeq(recipes, LAMBDA doc : doc.slug = slug)
    IN IF found = <<>> THEN None ELSE Some(found[Len(found)])

\* db["recipe"].find_one({"slug": slug})
FindBySlug(slug) == FindOne(recipes, <<Condition("slug", "$eq", slug)>>)

GetRecipeTwoLookups(slug) ==
    LET req == [slug |-> slug]
    IN /\ IF db = "None"
          THEN resp' = NotConfigured("get_recipe", req)
          ELSE LET doc == FindBySlug(slug)
                   again == FindBySlug(Lower(slug))
               IN IF doc # None
                  THEN resp' = Response("get_recipe", req, 200, "",
                                        serialize_doc(doc[1]), 1, 0)
                  ELSE IF again # None
                  THEN resp' = Response("get_recipe", req, 200, "",
                                        serialize_doc(again[1]), 2, 0)
                  ELSE resp' = Response("get_recipe", req, 404,
                                        "Recipe not found", <<>>, 2, 0)
       /\ UNCHANGED <<db, frontend_url, recipes, comments, categories, inflight>>

\* GET /api/recipes/{slug}
get_recipe(slug) ==
    LET req == [slug |-> slug]
    IN /\ IF db = "None"
          THEN resp' = NotConfigured("get_recipe", req)
          ELSE LET doc == FindBySlug(slug)
               IN IF doc = None
                  THEN resp' = Response("get_recipe", req, 404,
                                        "Recipe not found", <<>>, 1, 0)
                  ELSE resp' = Response("get_recipe", req, 200, "",
                                        serialize_doc(doc[1]), 1, 0)
       /\ UNCHANGED <<db, frontend_url, recipes, comments, categories, inflight>>

(***************************************************************************)
(* Comments                                                                *)
(***************************************************************************)
RecipeExistsUnchecked(recipe_id) == TRUE

\* exists = db["recipe"].find_one({"_id": _id}), with _id = ObjectId(recipe_id)
RecipeExists(recipe_id) ==
    FindOne(recipes, <<Condition("_id", "$eq", ObjectId(recipe_id))>>) # None

AddCommentGuardIdFirst(recipe_id) ==
    IF ~IsValidOid(recipe_id) THEN "invalid"
    ELSE IF db = "None" THEN "unconfigured"
    ELSE IF ~RecipeExists(recipe_id) THEN "missing"
    ELSE "ok"

\* The checks of add_comment's body, in the order the code makes them
AddCommentGuard(recipe_id) ==
    IF db = "None" THEN "unconfigured"
    ELSE IF ~IsValidOid(recipe_id) THEN "invalid"
    ELSE IF ~RecipeExists(recipe_id) THEN "missing"
    ELSE "ok"

CommentDataKeepingBody(recipe_id, comment) ==
    [comment EXCEPT !.recipe_id = comment.recipe_id[1]]

\* data = comment.model_dump(); data["recipe_id"] = recipe_id
CommentData(recipe_id, comment) == [comment EXCEPT !.recipe_id = recipe_id]

\* POST /api/recipes/{recipe_id}/comments, up to the answer of find_one.
\* The body is validated against Comment before the function is entered.
add_comment(recipe_id, comment) ==
    LET req == [recipe_id |-> recipe_id, comment |-> comment]
        guard == AddCommentGuard(recipe_id)
    IN /\ IF ~ValidComment(comment)
          THEN resp' = Unprocessable("add_comment", req) /\ UNCHANGED inflight
          ELSE IF guard = "unconfigured"
          THEN resp' = NotConfigured("add_comment", req) /\ UNCHANGED inflight
          ELSE IF guard = "invalid"
          THEN /\ resp' = Response("add_comment", req, 400,
                                   "Invalid recipe id", <<>>, 0, 0)
               /\ UNCHANGED inflight
          ELSE IF guard = "missing"
          THEN /\ resp' = Response("add_comment", req, 404,
                                   "Recipe not found", <<>>, 1, 0)
               /\ UNCHANGED inflight
          ELSE /\ Cardinality(inflight) < MaxInFlight
               /\ Len(comments) + Cardinality(inflight) < MaxComments
               /\ req \notin inflight
               /\ inflight' = inflight \cup {req}
               /\ UNCHANGED resp
       /\ UNCHANGED <<db, frontend_url, recipes, comments, categories>>

\* add_comment from the answer of find_one on: the insert and the response
add_comment_insert(req) ==
    /\ req \in inflight
    /\ LET made == CreateDocument(comments, "c",
                                  CommentData(req.recipe_id, req.comment))
       IN /\ comments' = made.docs
          /\ resp' = Response("add_comment", req, 200, "", [id |-> made.id], 1, 1)
    /\ inflight' = inflight \ {req}
    /\ UNCHANGED <<db, frontend_url, recipes, categories>>

\* GET /api/recipes/{recipe_id}/comments
list_comments(recipe_id, limit) ==
    LET req == [recipe_id |-> recipe_id, limit |-> limit]
    IN /\ IF ~ValidListLimit(limit)
          THEN resp' = Unprocessable("list_comments", req)
          ELSE IF db = "None"
          THEN resp' = NotConfigured("list_comments", req)
          ELSE LET docs == GetDocuments(comments,
                           <<Condition("recipe_id", "$eq", recipe_id)>>, limit)
               IN resp' = Response("list_comments", req, 200, "",
                                   SerializeAll(docs), 1, 0)
       /\ UNCHANGED <<db, frontend_url, recipes, comments, categories, inflight>>

(***************************************************************************)
(* Categories                                                              *)
(***************************************************************************)
\* POST /api/categories
create_category(category) ==
    /\ IF ~ValidCategory(category)
       THEN /\ resp' = Unprocessable("create_category", category)
            /\ UNCHANGED categories
       ELSE IF db = "None"
       THEN /\ resp' = NotConfigured("create_category", category)
            /\ UNCHANGED categories
       ELSE /\ Len(categories) < MaxCategories
            /\ LET made == CreateDocument(categories, "d", category)
               IN /\ categories' = made.docs
                  /\ resp' = Response("create_category", category, 200, "",
                                      [id |-> made.id], 0, 1)
    /\ UNCHANGED <<db, frontend_url, recipes, comments, inflight>>

\* GET /api/categories
list_categories(limit) ==
    LET req == [limit |-> limit]
    IN /\ IF ~ValidListLimit(limit)
          THEN resp' = Unprocessable("list_categories", req)
          ELSE IF db = "None"
          THEN resp' = NotConfigured("list_categories", req)
          ELSE LET docs == GetDocuments(categories, <<>>, limit)
               IN resp' = Response("list_categories", req, 200, "",
                                   SerializeAll(docs), 1, 0)
       /\ UNCHANGED <<db, frontend_url, recipes, comments, categories, inflight>>

(***************************************************************************)
(* Sitemap                                                                 *)
(***************************************************************************)
\* The fixed pieces of the document are single tokens; the interpolated
\* values contribute their characters one by one.
UrlOpen == "  <url><loc>"
UrlClose == "</loc></url>"
XmlDecl == "<?xml version=\"1.0\" encoding=\"UTF-8\"?>"
UrlsetOpen == "<urlset xmlns=\"http://www.sitemaps.org/schemas/sitemap/0.9\">"
UrlsetClose == "</urlset>"
RecipePath == <<"/", "r", "e", "c", "i", "p", "e", "/">>

\* f"  <url><loc>{base}/recipe/{r['slug']}</loc></url>"
UrlLine(base, slug) == <<UrlOpen>> \o base \o RecipePath \o slug \o <<UrlClose>>

\* GET /sitemap.xml: no test of db; db["recipe"] on None raises TypeError
sitemap ==
    /\ IF db = "None"
       THEN resp' = InternalError("sitemap", <<>>, 0, 0)
       ELSE LET found == Take(recipes, SitemapLimit)
                urls == [i \in DOMAIN found |-> UrlLine(frontend_url, found[i].slug)]
                xml == Join(<<"\n">>, <<<<XmlDecl>>, <<UrlsetOpen>>>> \o urls
                                       \o <<<<UrlsetClose>>>>)
            IN resp' = Response("sitemap", <<>>, 200, "", xml, 1, 0)
    /\ UNCHANGED <<db, frontend_url, recipes, comments, categories, inflight>>

(***************************************************************************)
(* Suggestions                                                             *)
(***************************************************************************)
SaltTip == "Add a pinch of salt to enhance flavors."
CitrusTip == "A squeeze of citrus at the end brightens the dish."
GarlicTip == "Saute garlic gently; burnt garlic turns bitter."
FallbackTip == "Taste as you cook and adjust seasoning gradually."
Salt == <<"s", "a", "l", "t">>
Lemon == <<"l", "e", "m", "o", "n">>
Lime == <<"l", "i", "m", "e">>
Garlic == <<"g", "a", "r", "l", "i", "c">>

TipsCaseSensitive(ingredients) ==
    LET ings == Join(<<",", " ">>, ingredients)
        t1 == IF ~Contains(ings, Salt) THEN <<SaltTip>> ELSE <<>>
        t2 == IF Contains(ings, Lemon) \/ Contains(ings, Lime)
              THEN Append(t1, CitrusTip) ELSE t1
        t3 == IF Contains(ings, Garlic) THEN Append(t2, GarlicTip) ELSE t2
        t4 == IF t3 = <<>> THEN Append(t3, FallbackTip) ELSE t3
    IN Take(t4, 3)

\* The tips of ai_suggest for data.ingredients
Tips(ingredients) ==
    LET ings == Join(<<",", " ">>, ingredients)
        t1 == IF ~Contains(Lower(ings), Salt) THEN <<SaltTip>> ELSE <<>>
        t2 == IF Contains(Lower(ings), Lemon) \/ Contains(Lower(ings), Lime)
              THEN Append(t1, CitrusTip) ELSE t1
        t3 == IF Contains(Lower(ings), Garlic) THEN Append(t2, GarlicTip) ELSE t2
        t4 == IF t3 = <<>> THEN Append(t3, FallbackTip) ELSE t3
    IN Take(t4, 3)

\* POST /api/ai/suggest
ai_suggest(data) ==
    /\ resp' = Response("ai_suggest", data, 200, "",
                        [tips |-> Tips(data.ingredients)], 0, 0)
    /\ UNCHANGED <<db, frontend_url, recipes, comments, categories, inflight>>

(***************************************************************************)
(* Requests the specifications draw from                                   *)
(***************************************************************************)
Recipe(title, slug, tags, cook_time_minutes) ==
    [title |-> title, slug |-> slug, tags |-> tags,
     cook_time_minutes |-> cook_time_minutes]

Comment(recipe_id, name, message) ==
    [recipe_id |-> recipe_id, name |-> name, message |-> message]

Category(name) == [name |-> name, description |-> None]

Abc == <<"a", "b", "c">>

\* "abc" -> slug "abc"
RecipeAbc == Recipe(Abc, None, <<<<"t">>>>, None)
\* "A c" with the explicit slug "abc"
RecipeGivenSlug == Recipe(<<"A", " ", "c">>, Some(Abc), <<<<"T">>>>, Some(0))
\* "a.c" with an empty slug -> slug "a.c"
RecipeDot == Recipe(<<"a", ".", "c">>, Some(<<>>), <<>>, Some(1000))
\* rejected: title too short, cook time out of range
RecipeShortTitle == Recipe(<<"a", "b">>, None, <<>>, None)
RecipeLongCook == Recipe(Abc, None, <<>>, Some(1001))

CommentOk == Comment(Some(<<"z", "z">>), <<"A", "l">>, <<"m">>)
CommentShortName == Comment(Some(<<"z", "z">>), <<"A">>, <<"m">>)
CommentNoMessage == Comment(Some(<<"z", "z">>), <<"A", "l">>, <<>>)
CommentNoRecipeId == Comment(None, <<"A", "l">>, <<"m">>)

\* The identifier strings of the first recipes, and of the first comment
RecipeIdStr(n) == OidStr(NewObjectId("a", n))
CommentIdStr(n) == OidStr(NewObjectId("c", n))
\* Not identifiers: too short, and with a digit that is not hexadecimal
ShortIdStr == Tail(RecipeIdStr(1))
NonHexIdStr == [RecipeIdStr(1) EXCEPT ![1] = "g"]

PathIds ==
    {RecipeIdStr(n) : n \in 1..(MaxRecipes + 1)}
        \cup {Upper(RecipeIdStr(1)), CommentIdStr(1), ShortIdStr, NonHexIdStr}

ListIds == {RecipeIdStr(1), Upper(RecipeIdStr(1)), RecipeIdStr(2), ShortIdStr}

Ingredients ==
    {Salt, Upper(Salt), Lemon, Upper(Lime), Garlic,
     <<"s", "a", "l">>, <<"t">>, <<"e", "g", "g">>}

TitleAlphabet == {"a", "B", " ", "\t", "<"}

SlugPayloads ==
    {Recipe(title, slug, <<>>, None) :
        title \in Strings(TitleAlphabet, 0, MaxTitleLen),
        slug \in {None, Some(<<>>), Some(<<"X", " ", "&">>)}}

(***************************************************************************)
(* Specifications                                                          *)
(***************************************************************************)
Init ==
    /\ db \in {"None", "client"}
    /\ frontend_url \in {<<>>, <<"h">>}
    /\ recipes = <<>>
    /\ comments = <<>>
    /\ categories = <<>>
    /\ inflight = {}
    /\ resp = NoResponse

\* Every data endpoint, on few requests each
Next ==
    \/ \E recipe \in {RecipeAbc, RecipeShortTitle} : create_recipe(recipe)
    \/ \E q \in {None, Some(<<"b">>)}, tag \in {None, Some(<<"t">>)},
          limit \in {0, 1} : list_recipes(q, tag, limit)
    \/ \E slug \in {Abc, <<"z">>} : get_recipe(slug)
    \/ \E recipe_id \in {RecipeIdStr(1), RecipeIdStr(2), NonHexIdStr},
          comment \in {CommentOk, CommentShortName} :
            add_comment(recipe_id, comment)
    \/ \E req \in inflight : add_comment_insert(req)
    \/ \E recipe_id \in {RecipeIdStr(1)}, limit \in {1, 201} :
            list_comments(recipe_id, limit)
    \/ \E category \in {Category(<<"d", "e">>), Category(<<"d">>)} :
            create_category(category)
    \/ \E limit \in {0, 1} : list_categories(limit)
    \/ sitemap

Spec == Init /\ [][Next]_vars

\* Recipes: creation, filtered listing, lookup by slug
NextRecipes ==
    \/ \E recipe \in {RecipeAbc, RecipeGivenSlug, RecipeDot,
                      RecipeShortTitle, RecipeLongCook} : create_recipe(recipe)
    \/ \E q \in {None, Some(<<>>), Some(<<"B">>), Some(<<"a", ".", "c">>),
                 Some(<<"z">>)},
          tag \in {None, Some(<<>>), Some(<<"t">>), Some(<<"T">>)},
          limit \in {0, 1, 2, 100, 101} : list_recipes(q, tag, limit)
    \/ \E slug \in {Abc, <<"a", "-", "c">>, <<"a", ".", "c">>, <<"z">>} :
            get_recipe(slug)

SpecRecipes == Init /\ [][NextRecipes]_vars

\* Comments: requests to add one interleave with each other, with recipe
\* creation and with listing
NextComments ==
    \/ create_recipe(RecipeAbc)
    \/ \E recipe_id \in PathIds,
          comment \in {CommentOk, CommentNoMessage, CommentNoRecipeId} :
            add_comment(recipe_id, comment)
    \/ \E req \in inflight : add_comment_insert(req)
    \/ \E recipe_id \in ListIds, limit \in {0, 1, 2, 201} :
            list_comments(recipe_id, limit)

SpecComments == Init /\ [][NextComments]_vars

\* Slugs: as the first request, one creation for every title, and then the
\* sitemap of the result
NextSlug ==
    \/ resp = NoResponse /\ \E recipe \in SlugPayloads : create_recipe(recipe)
    \/ sitemap

SpecSlug == Init /\ [][NextSlug]_vars

\* Suggestions: the handler reads no state, so each request is the first
NextSuggest ==
    /\ resp = NoResponse
    /\ \E ingredients \in Strings(Ingredients, 0, MaxIngredients) :
            ai_suggest([title |-> <<"x">>, ingredients |-> ingredients])

SpecSuggest == Init /\ [][NextSuggest]_vars

(***************************************************************************)
(* Properties                                                              *)
(***************************************************************************)
Ok(op) == resp.op = op /\ resp.status = 200

\* The stored recipe whose identifier create_recipe returned
StoredRecipe(id) == CHOOSE doc \in Range(recipes) : OidStr(doc["_id"]) = id

RECURSIVE DropSpaces(_)
DropSpaces(s) ==
    IF s # <<>> /\ Head(s) \in WhitespaceChars THEN DropSpaces(Tail(s)) ELSE s

RECURSIVE HyphenateRuns(_)
\* s with each maximal run of whitespace replaced by one hyphen
HyphenateRuns(s) ==
    IF s = <<>> THEN <<>>
    ELSE IF Head(s) \in WhitespaceChars
         THEN <<"-">> \o HyphenateRuns(DropSpaces(Tail(s)))
         ELSE <<Head(s)>> \o HyphenateRuns(Tail(s))

RECURSIVE DropTrailingSpaces(_)
DropTrailingSpaces(s) ==
    IF s # <<>> /\ s[Len(s)] \in WhitespaceChars
    THEN DropTrailingSpaces(SubSeq(s, 1, Len(s) - 1))
    ELSE s

\* s without its leading and trailing whitespace
Strip(s) == DropTrailingSpaces(DropSpaces(s))

SlugGiven(recipe) == recipe.slug # None /\ recipe.slug[1] # <<>>

\* C5 as claimed: after create_recipe succeeds, the stored slug is the given
\* slug when one is given and not empty, and otherwise the lowercase title
\* with each run of whitespace, leading and trailing runs included, replaced
\* by one hyphen.
C5_SlugHyphenatesEveryRun ==
    Ok("create_recipe") =>
        StoredRecipe(resp.body.id).slug =
            IF SlugGiven(resp.req) THEN resp.req.slug[1]
            ELSE HyphenateRuns(Lower(resp.req.title))

\* C5 as amended: after create_recipe succeeds, the stored slug is the given
\* slug when one is given and not empty, and otherwise the lowercase title
\* without its leading and trailing whitespace and with each remaining run
\* of whitespace replaced by one hyphen (the empty slug for a title of
\* whitespace only).
C5_SlugHyphenatesInnerRuns ==
    Ok("create_recipe") =>
        StoredRecipe(resp.body.id).slug =
            IF SlugGiven(resp.req) THEN resp.req.slug[1]
            ELSE HyphenateRuns(Strip(Lower(resp.req.title)))

\* A slug derived from a title with leading whitespace, an inner run of
\* whitespace and an upper-case letter
C5_Witness ==
    /\ Ok("create_recipe")
    /\ ~SlugGiven(resp.req)
    /\ resp.req.title = <<" ", "B", "\t", "a">>
    /\ recipes[1].slug = <<"b", "-", "a">>

MarkupChars == {"<", "&", ">"}
SitemapTokens == {XmlDecl, UrlsetOpen, UrlsetClose, UrlOpen, UrlClose, "\n"}

\* Character data between the tags holds no "<" and no "&"
WellFormedSitemap(xml) ==
    \A i \in DOMAIN xml : xml[i] \in SitemapTokens \/ xml[i] \notin {"<", "&"}

\* C6: no stored slug holds "<", "&" or ">", and the sitemap, with one url
\* entry per recipe, is well-formed XML.
C6_SlugsAreXmlSafe ==
    /\ \A i \in DOMAIN recipes : Range(recipes[i].slug) \cap MarkupChars = {}
    /\ Ok("sitemap") =>
          /\ WellFormedSitemap(resp.body)
          /\ Cardinality({i \in DOMAIN resp.body : resp.body[i] = UrlOpen})
                = Len(recipes)

\* C7: the tips of ai_suggest are those of the rules that fire, in rule
\* order: the salt tip unless an ingredient holds "salt", the citrus tip if
\* one holds "lemon" or "lime", the garlic tip if one holds "garlic", in
\* any case of letters; the fallback tip alone if and only if none fires;
\* between one and three tips in all.
C7_TipsFollowRules ==
    resp.op = "ai_suggest" =>
        LET ing == resp.req.ingredients
            Has(word) == \E k \in DOMAIN ing : Contains(Lower(ing[k]), word)
            rule1 == ~Has(Salt)
            rule2 == Has(Lemon) \/ Has(Lime)
            rule3 == Has(Garlic)
            tips == resp.body.tips
        IN /\ Len(tips) >= 1 /\ Len(tips) <= 3
           /\ (rule1 \/ rule2 \/ rule3) =>
                 tips = (IF rule1 THEN <<SaltTip>> ELSE <<>>)
                        \o (IF rule2 THEN <<CitrusTip>> ELSE <<>>)
                        \o (IF rule3 THEN <<GarlicTip>> ELSE <<>>)
           /\ (FallbackTip \in Range(tips)) <=> ~(rule1 \/ rule2 \/ rule3)
           /\ ~(rule1 \/ rule2 \/ rule3) => tips = <<FallbackTip>>

\* Upper-case salt and lime with garlic: the citrus and garlic tips only
C7_Witness ==
    /\ resp.op = "ai_suggest"
    /\ resp.req.ingredients = <<Upper(Salt), Upper(Lime), Garlic>>
    /\ resp.body.tips = <<CitrusTip, GarlicTip>>

DataEndpoints ==
    {"create_recipe", "list_recipes", "get_recipe", "add_comment",
     "list_comments", "create_category", "list_categories", "sitemap"}

\* C2: with the store client unset, a request that reaches a data endpoint
\* is rejected with 500 "Database not configured" before any store access.
C2_UnsetStoreRejectedUniformly ==
    (db = "None" /\ resp.op \in DataEndpoints /\ resp.status # 422) =>
        /\ resp.status = 500
        /\ resp.detail = "Database not configured"
        /\ resp.reads = 0
        /\ resp.writes = 0

\* C3 as claimed: a request makes at most one store round-trip, and a
\* request that is answered 200 makes exactly one: a read or a write, never
\* both.
C3_OneRoundTrip ==
    resp.op \in DataEndpoints =>
        /\ resp.reads + resp.writes <= 1
        /\ resp.status = 200 => resp.reads + resp.writes = 1

\* C3 as amended: add_comment makes one read and, when the recipe exists,
\* one write after it; every other data endpoint makes at most one
\* round-trip: one read (the listings, get_recipe, sitemap) or one write
\* (the creations) once the request is past validation and the test of the
\* store client, none when it is rejected before.
C3_RoundTripsPerEndpoint ==
    resp.op \in DataEndpoints =>
        /\ resp.op # "add_comment" => resp.reads + resp.writes <= 1
        /\ resp.op \in {"create_recipe", "create_category"} =>
              resp.reads = 0 /\ (resp.writes = 1 <=> resp.status = 200)
        /\ resp.op \in {"list_recipes", "list_comments", "list_categories",
                        "sitemap"} =>
              resp.writes = 0 /\ (resp.reads = 1 <=> resp.status = 200)
        /\ resp.op = "get_recipe" =>
              resp.writes = 0 /\ (resp.reads = 1 <=> resp.status \in {200, 404})
        /\ resp.op = "add_comment" =>
              /\ resp.reads = 1 <=> resp.status \in {200, 404}
              /\ resp.writes = 1 <=> resp.status = 200
              /\ resp.reads <= 1 /\ resp.writes <= 1
        /\ Len(recipes) + Len(comments) + Len(categories) > 0 => db = "client"

\* add_comment answered after its read and its write
C3_Witness ==
    /\ Ok("add_comment")
    /\ resp.reads = 1
    /\ resp.writes = 1
    /\ Len(comments) = 1

\* Whether a stored recipe has the identifier that text denotes
Identifies(text) ==
    \E i \in DOMAIN recipes : OidStr(recipes[i]["_id"]) = Lower(text)

\* C1 as claimed: with the store configured, a path recipe_id that is not
\* well-formed is answered 400 "invalid id" whatever the payload, a
\* well-formed one that matches no recipe 404 "not found" whatever the
\* payload, and a payload error only when both checks pass.
C1_PathChecksPrecedePayload ==
    (db = "client" /\ resp.op = "add_comment") =>
        LET id == resp.req.recipe_id
        IN /\ ~IsValidOid(id) =>
                resp.status = 400 /\ resp.detail = "Invalid recipe id"
           /\ (IsValidOid(id) /\ ~Identifies(id)) =>
                resp.status = 404 /\ resp.detail = "Recipe not found"
           /\ resp.status = 422 => (IsValidOid(id) /\ Identifies(id))

\* C1 as amended: add_comment checks, in this order, the payload's field
\* constraints (422), the store client (500), the path recipe_id's form
\* (400 "invalid id") and the recipe's existence (404 "not found"); a
\* payload error is reported whatever the path recipe_id is.
C1_PayloadCheckedFirst ==
    resp.op = "add_comment" =>
        LET id == resp.req.recipe_id
            payloadOk == ValidComment(resp.req.comment)
        IN /\ resp.status = 422 <=> ~payloadOk
           /\ (payloadOk /\ db = "None") =>
                resp.status = 500 /\ resp.detail = "Database not configured"
           /\ (payloadOk /\ db = "client" /\ ~IsValidOid(id)) =>
                resp.status = 400 /\ resp.detail = "Invalid recipe id"
           /\ (payloadOk /\ db = "client" /\ IsValidOid(id) /\ ~Identifies(id)) =>
                resp.status = 404 /\ resp.detail = "Recipe not found"
           /\ (payloadOk /\ db = "client" /\ IsValidOid(id) /\ Identifies(id)) =>
                resp.status = 200

\* A payload error reported for a path recipe_id that is not well-formed
C1_Witness ==
    /\ db = "client"
    /\ resp.op = "add_comment"
    /\ resp.status = 422
    /\ ~IsValidOid(resp.req.recipe_id)

\* The comments stored for recipe_id among the first i of the collection
RankOf(recipe_id, i) ==
    Cardinality({j \in 1..i : comments[j].recipe_id = recipe_id})

\* The comment add_comment stored is the last one, stamped with the path's id
StampedFromPath ==
    Ok("add_comment") =>
        /\ comments # <<>>
        /\ OidStr(comments[Len(comments)]["_id"]) = resp.body.id
        /\ comments[Len(comments)].recipe_id = resp.req.recipe_id
        /\ comments[Len(comments)].name = resp.req.comment.name
        /\ comments[Len(comments)].message = resp.req.comment.message

\* list_comments fails for no recipe_id, and lists nothing where none is stored
ListsEmptyWithoutError ==
    (resp.op = "list_comments" /\ db = "client"
        /\ resp.req.limit >= 1 /\ resp.req.limit <= 200) =>
        /\ resp.status = 200
        /\ RankOf(resp.req.recipe_id, Len(comments)) = 0 => resp.body = <<>>

\* C8 as claimed: the stored comment carries the path's recipe_id whatever
\* the body held, every list_comments for that id returns every comment
\* stored for it, and an id without comments lists as empty, not an error.
C8_ListedByEveryLaterCall ==
    /\ StampedFromPath
    /\ ListsEmptyWithoutError
    /\ Ok("list_comments") =>
          \A i \in DOMAIN comments :
              comments[i].recipe_id = resp.req.recipe_id =>
                  serialize_doc(comments[i]) \in Range(resp.body)

\* C8 as amended: the stored comment carries the path's recipe_id whatever
\* the body held; a list_comments for that id returns it when it is among
\* the first limit comments stored for the id, and returns nothing stored
\* for another id; an id without comments lists as empty, not an error.
C8_ListedWithinLimit ==
    /\ StampedFromPath
    /\ ListsEmptyWithoutError
    /\ Ok("list_comments") =>
          /\ \A i \in DOMAIN comments :
                (/\ comments[i].recipe_id = resp.req.recipe_id
                 /\ RankOf(resp.req.recipe_id, i) <= resp.req.limit) =>
                    serialize_doc(comments[i]) \in Range(resp.body)
          /\ \A k \in DOMAIN resp.body :
                resp.body[k].recipe_id = resp.req.recipe_id
          /\ Len(resp.body) <= resp.req.limit

\* Two comments added under one path recipe_id, which the body did not
\* hold, and both listed for it
C8_Witness ==
    /\ Ok("list_comments")
    /\ Len(comments) = 2
    /\ resp.req.recipe_id = RecipeIdStr(1)
    /\ comments[1].recipe_id = RecipeIdStr(1)
    /\ comments[2].recipe_id = RecipeIdStr(1)
    /\ resp.req.limit = 2
    /\ Len(resp.body) = 2
    /\ resp.body[2].id = CommentIdStr(2)

\* C10: after every step each stored comment's recipe_id identifies a
\* stored recipe, and a step that ends in a 500, 400 or 404 answer leaves
\* the collections as they were.
C10_ReferentialIntegrity ==
    [][/\ \A i \in DOMAIN comments' :
              \E j \in DOMAIN recipes' :
                  recipes'[j]["_id"] = ObjectId(comments'[i].recipe_id)
       /\ resp'.status \in {500, 400, 404} =>
              UNCHANGED <<recipes, comments, categories>>]_vars

\* A recipe created between the lookup and the insert of an add_comment,
\* and a later request answered 404
C10_Witness ==
    /\ Len(recipes) = 2
    /\ Len(comments) = 2
    /\ comments[1].recipe_id = Upper(RecipeIdStr(1))
    /\ comments[2].recipe_id = RecipeIdStr(2)
    /\ resp.op = "add_comment"
    /\ resp.status = 404

\* The first stored recipe with the slug
FirstWithSlug(slug) ==
    recipes[CHOOSE i \in DOMAIN recipes :
                /\ recipes[i].slug = slug
                /\ \A j \in 1..(i - 1) : recipes[j].slug # slug]

\* A get_recipe that directly follows a successful create_recipe and asks
\* for the slug stored by it
FetchAfterCreate ==
    /\ Ok("create_recipe")
    /\ resp'.op = "get_recipe"
    /\ resp'.req.slug = StoredRecipe(resp.body.id).slug

\* The answer is the record with this identifier and the payload's fields
ReturnsRecord(answer, id, payload, slug) ==
    /\ answer.status = 200
    /\ answer.body.id = id
    /\ answer.body.title = payload.title
    /\ answer.body.tags = payload.tags
    /\ answer.body.cook_time_minutes = payload.cook_time_minutes
    /\ answer.body.slug = slug
    /\ DOMAIN answer.body = (DOMAIN payload) \cup {"id"}

\* C4 as claimed: after any earlier creations, get_recipe with the slug
\* stored for the recipe just created returns that record, with the
\* payload's fields and the identifier as id.
C4_FetchReturnsCreated ==
    [][FetchAfterCreate =>
          ReturnsRecord(resp', resp.body.id, resp.req, resp'.req.slug)]_vars

\* C4 as amended: get_recipe with the slug stored for the recipe just
\* created returns the first stored recipe with that slug, serialized; when
\* no earlier recipe has the slug this is the record just created, with the
\* payload's fields, the stored slug and the identifier as id.
C4_FetchReturnsFirstWithSlug ==
    [][FetchAfterCreate =>
          /\ resp'.status = 200
          /\ resp'.body.id = OidStr(FirstWithSlug(resp'.req.slug)["_id"])
          /\ FirstWithSlug(resp'.req.slug) = StoredRecipe(resp.body.id) =>
                ReturnsRecord(resp', resp.body.id, resp.req, resp'.req.slug)]_vars

\* The second recipe fetched by its own slug, which the first does not have
C4_Witness ==
    /\ Ok("get_recipe")
    /\ Len(recipes) = 2
    /\ recipes[1].slug # recipes[2].slug
    /\ resp.req.slug = recipes[2].slug
    /\ resp.body.id = RecipeIdStr(2)
    /\ resp.body.title = <<"A", " ", "c">>

\* C9: list_recipes rejects a limit outside 1..100, returns at most limit
\* records, and returns only records whose title contains q, letters
\* compared without case, when q is given, and whose tags hold tag itself
\* when tag is given.
C9_ListedRecipesMatch ==
    resp.op = "list_recipes" =>
        LET q == resp.req.q
            tag == resp.req.tag
            limit == resp.req.limit
        IN /\ (limit < 1 \/ limit > 100) => resp.status = 422
           /\ resp.status = 200 =>
                /\ Len(resp.body) <= limit
                /\ \A k \in DOMAIN resp.body :
                      /\ (q # None /\ q[1] # <<>>) =>
                            Contains(Lower(resp.body[k].title), Lower(q[1]))
                      /\ (tag # None /\ tag[1] # <<>>) =>
                            tag[1] \in Range(resp.body[k].tags)
====
